---------------------------- MODULE Spec2Model ----------------------------
(***************************************************************************)
(* Model of datacontract/export/avro_converter.py: the conversion of a     *)
(* data contract model (a tree of field descriptors) into an Avro schema,  *)
(* with the module-level set avro_data_types_cache of the record types     *)
(* that have already been emitted.                                         *)
(*                                                                         *)
(* Python values are represented as follows.                               *)
(*   - An attribute that may be None, and a dict key that may be absent,   *)
(*     is a sequence of length at most one: <<>> is None / absent, <<x>>   *)
(*     is the value x.                                                     *)
(*   - An ordered dict of fields is a sequence of pairs <<name, field>>.   *)
(*   - Every emitted Avro value is a record with a tag k: a bare string    *)
(*     (k = "str"), a dict (k = "logical", "decimal", "enum", "map",       *)
(*     "array", "record", "field"), the list ["null", t] (k = "union").    *)
(*   - A raised exception is the value [k |-> "raise", exc |-> ...]; it    *)
(*     propagates through every caller up to the operation that was        *)
(*     called, while the insertions already made in the cache remain.      *)
(***************************************************************************)
EXTENDS Integers, Sequences, FiniteSets, TLC

VARIABLES avro_data_types_cache, cacheBefore, call, arg, out

vars == <<avro_data_types_cache, cacheBefore, call, arg, out>>

---------------------------------------------------------------------------
(* Python values *)

NoneVal == <<>>

Some(x) == <<x>>

IsNone(o) == o = <<>>

Str(s) == [k |-> "str", s |-> s]

Raise(e) == [k |-> "raise", exc |-> e]

IsRaise(v) == v.k = "raise"

Union(t) == [k |-> "union", alt |-> t]

EnumType(name, symbols) == [k |-> "enum", name |-> name, symbols |-> symbols]

LogicalType(t, l) == [k |-> "logical", type |-> t, logicalType |-> l]

(* str(None) is "None" in an f-string *)
FmtNs(ns) == IF IsNone(ns) THEN "None" ELSE ns[1]

(* f"{avroNamespace}.{avroType}" *)
CacheKey(avroNamespace, avroType) == FmtNs(avroNamespace) \o "." \o avroType

(* "key in field.config" for a config that is not None *)
ConfigKeys == {"avroType", "avroNamespace", "avroLogicalType", "avroDefault", "values", "name"}

HasKey(config, key) == ~IsNone(config) /\ ~IsNone(config[1][key])

(* truth value of field.config: None and the empty dict are false *)
Truthy(config) == \E key \in ConfigKeys : HasKey(config, key)

LongLogicalTypes ==
    {"timestamp-millis", "timestamp-micros", "local-timestamp-millis",
     "local-timestamp-micros", "time-micros"}

IntLogicalTypes == {"time-millis", "date"}

StructTags == {"object", "record", "struct"}

---------------------------------------------------------------------------
(* to_avro_type, lines 90-106: the configuration overrides.  The result is *)
(* <<>> when no override returns and the type tag decides.                 *)
ConfigOverride(field, field_name) ==
    IF ~Truthy(field.config) THEN NoneVal
    ELSE LET config == field.config[1] IN
         IF ~IsNone(config.avroLogicalType) /\ ~IsNone(config.avroType)
         THEN Some(LogicalType(config.avroType[1], config.avroLogicalType[1]))
         ELSE IF ~IsNone(config.avroLogicalType) /\ config.avroLogicalType[1] \in LongLogicalTypes
         THEN Some(LogicalType("long", config.avroLogicalType[1]))
         ELSE IF ~IsNone(config.avroLogicalType) /\ config.avroLogicalType[1] \in IntLogicalTypes
         THEN Some(LogicalType("int", config.avroLogicalType[1]))
         ELSE IF ~IsNone(config.avroType) /\ config.avroType[1] = "enum"
         THEN Some(EnumType(Some(field_name), field.enum))
         ELSE NoneVal

(* to_avro_type, lines 108-144, 165-166, 174-177: the tags that map to a   *)
(* value without recursion.                                                *)
ScalarType(field) ==
    IF IsNone(field.type) THEN Str("null")
    ELSE LET t == field.type[1] IN
         CASE t \in {"string", "varchar", "text"} -> Str("string")
           [] t \in {"number", "numeric"} -> Str("bytes")
           [] t = "decimal" -> [k |-> "decimal", type |-> "bytes", logicalType |-> "decimal",
                                scale |-> field.scale, precision |-> field.precision]
           [] t = "float" -> Str("float")
           [] t = "double" -> Str("double")
           [] t \in {"integer", "int"} -> Str("int")
           [] t \in {"long", "bigint"} -> Str("long")
           [] t = "boolean" -> Str("boolean")
           [] t \in {"timestamp", "timestamp_tz"} -> LogicalType("long", "timestamp-millis")
           [] t = "timestamp_ntz" -> LogicalType("long", "local-timestamp-millis")
           [] t = "date" -> LogicalType("int", "date")
           [] t = "time" -> Str("long")
           [] t = "map" -> IF HasKey(field.config, "values")
                           THEN [k |-> "map", values |-> field.config[1].values[1]]
                           ELSE Str("bytes")
           [] t = "binary" -> Str("bytes")
           [] t = "null" -> Str("null")
           [] OTHER -> Str("bytes")

(* lines 146-149 *)
ResolveNamespaceGlobal(field, namespace) == namespace

ResolveNamespace(field, namespace) ==
    IF HasKey(field.config, "avroNamespace") THEN field.config[1].avroNamespace ELSE namespace

(* lines 151-154 *)
ResolveTypeName(field, field_name) ==
    IF HasKey(field.config, "avroType") THEN field.config[1].avroType[1] ELSE field_name

(* lines 157-159 *)
NameReferenceUnqualified(avroNamespace, avroType, namespace) == Str(avroType)

NameReference(avroNamespace, avroType, namespace) ==
    IF avroNamespace # namespace THEN Str(CacheKey(avroNamespace, avroType)) ELSE Str(avroType)

(* line 162 *)
CacheAddReset(cache, key) == {key}

CacheAddSkipped(cache, key) == cache

CacheAdd(cache, key) == cache \cup {key}

(* line 55 *)
IsRequiredDefaultFalse(field) == IF IsNone(field.required) THEN FALSE ELSE field.required[1]

IsRequiredAvro(field) == IF IsNone(field.required) THEN TRUE ELSE field.required[1]

(* lines 67-72: f"[{entry['name']}].[{entry['field']}]" for every entry *)
LineageStrings(entries) ==
    [i \in 1..Len(entries) |-> "[" \o entries[i].name \o "].[" \o entries[i].field \o "]"]

(* Every operation returns [v |-> value or raise, c |-> cache afterwards]. *)

(* lines 169-173: the array of the converted items *)
ArrayOf(r) ==
    IF IsRaise(r.v) THEN r ELSE [v |-> [k |-> "array", items |-> r.v], c |-> r.c]

(* lines 52-86: the field definition for the result r of to_avro_type *)
FieldOf(field, field_name, r) ==
    IF IsRaise(r.v) THEN r
    ELSE LET type0 == IF IsRequiredAvro(field) THEN r.v ELSE Union(r.v)
             type1 == IF type0 = Str("enum") THEN EnumType(field.title, field.enum) ELSE type0
         IN  [v |-> [k |-> "field",
                     name |-> field_name,
                     doc |-> field.description,
                     type |-> type1,
                     tags |-> IF ~IsNone(field.tags) /\ Len(field.tags[1]) > 0
                              THEN field.tags ELSE NoneVal,
                     glossary |-> IF ~IsNone(field.relatedTerms) /\ Len(field.relatedTerms[1]) > 0
                                  THEN field.relatedTerms ELSE NoneVal,
                     lineage |-> IF ~IsNone(field.lineage) /\ ~IsNone(field.lineage[1].inputFields)
                                 THEN Some(LineageStrings(field.lineage[1].inputFields[1]))
                                 ELSE NoneVal,
                     default |-> IF Truthy(field.config)
                                    /\ HasKey(field.config, "avroDefault")
                                    /\ field.config[1].avroType # Some("enum")
                                 THEN field.config[1].avroDefault ELSE NoneVal],
              c |-> r.c]

(* line 47: result.append(...) of the result r of to_avro_field; a raise    *)
(* ends the loop                                                            *)
AppendField(result, r) ==
    IF IsRaise(r.v) THEN [v |-> result.v, c |-> r.c, raised |-> Some(r.v)]
    ELSE [v |-> Append(result.v, r.v), c |-> r.c, raised |-> NoneVal]

(* lines 35-41: the record around the converted fields r *)
RecordOf(name, description, namespace, r) ==
    IF ~IsNone(r.raised) THEN [v |-> r.raised[1], c |-> r.c]
    ELSE [v |-> [k |-> "record", name |-> name, doc |-> description,
                 namespace |-> namespace, fields |-> r.v],
          c |-> r.c]

RECURSIVE to_avro_type(_, _, _, _)
RECURSIVE to_avro_fields_loop(_, _, _, _)
RECURSIVE to_avro_record(_, _, _, _, _)
RECURSIVE to_avro_field(_, _, _, _)

(* lines 145-163, for the resolved avroNamespace and avroType *)
to_avro_structure(field, avroNamespace, avroType, namespace, cache) ==
    IF CacheKey(avroNamespace, avroType) \in cache
    THEN [v |-> NameReference(avroNamespace, avroType, namespace), c |-> cache]
    ELSE to_avro_record(avroType, field.fields, NoneVal, avroNamespace,
                        CacheAdd(cache, CacheKey(avroNamespace, avroType)))

(* lines 89-177 *)
to_avro_type(field, field_name, namespace, cache) ==
    IF ~IsNone(ConfigOverride(field, field_name))
    THEN [v |-> ConfigOverride(field, field_name)[1], c |-> cache]
    ELSE IF ~IsNone(field.type) /\ field.type[1] \in StructTags
    THEN to_avro_structure(field, ResolveNamespace(field, namespace),
                           ResolveTypeName(field, field_name), namespace, cache)
    ELSE IF ~IsNone(field.type) /\ field.type[1] = "array"
    THEN (* to_avro_type(None, ...) fails at line 90, field.items.config of *)
         (* None at line 171                                                *)
         IF IsNone(field.items) THEN [v |-> Raise("AttributeError"), c |-> cache]
         ELSE IF ~HasKey(field.config, "name")
         THEN ArrayOf(to_avro_type(field.items[1], field_name, namespace, cache))
         ELSE (* line 171: field.items.config["avroType"] is evaluated first *)
              IF IsNone(field.items[1].config) THEN [v |-> Raise("TypeError"), c |-> cache]
              ELSE IF IsNone(field.items[1].config[1].avroType)
              THEN [v |-> Raise("KeyError"), c |-> cache]
              ELSE ArrayOf(to_avro_type(field.items[1], field.items[1].config[1].avroType[1],
                                        namespace, cache))
    ELSE [v |-> ScalarType(field), c |-> cache]

(* lines 51-86 *)
to_avro_field(field, field_name, namespace, cache) ==
    FieldOf(field, field_name, to_avro_type(field, field_name, namespace, cache))

(* lines 46-47: the loop from the i-th field on, result being the fields    *)
(* converted so far                                                         *)
to_avro_fields_loop(fields, i, namespace, result) ==
    IF i > Len(fields) \/ ~IsNone(result.raised) THEN result
    ELSE to_avro_fields_loop(fields, i + 1, namespace,
            AppendField(result, to_avro_field(fields[i][2], fields[i][1], namespace, result.c)))

(* lines 44-48: v is the list of the converted fields, raised the exception *)
(* of the first field that raises                                           *)
to_avro_fields(fields, namespace, cache) ==
    to_avro_fields_loop(fields, 1, namespace, [v |-> <<>>, c |-> cache, raised |-> NoneVal])

(* lines 34-41 *)
to_avro_record(name, fields, description, namespace, cache) ==
    RecordOf(name, description, namespace, to_avro_fields(fields, namespace, cache))

(* lines 17-23: the name and the namespace of the top-level record *)
SchemaName(model_name, model) ==
    IF Truthy(model.config) /\ HasKey(model.config, "avroType")
    THEN model.config[1].avroType[1] ELSE model_name

SchemaNamespace(model) ==
    IF Truthy(model.config) /\ HasKey(model.config, "avroNamespace")
    THEN model.config[1].avroNamespace ELSE model.namespace

(* lines 16-25 *)
to_avro_schema(model_name, model, cache) ==
    to_avro_record(SchemaName(model_name, model), model.fields, model.description,
                   SchemaNamespace(model), cache)

(* line 31: json.dumps(schema) is the text of the schema it was given *)
JsonOf(r) ==
    IF IsRaise(r.v) THEN r ELSE [v |-> [k |-> "json", text |-> r.v], c |-> r.c]

(* lines 28-31 *)
to_avro_schema_json(model_name, model, cache) ==
    JsonOf(to_avro_schema(model_name, model, cache))

---------------------------------------------------------------------------
(* The inputs: field descriptors (datacontract.model Field) and models.    *)

MaxFields == 2

MaxDepth == 2

EmptyConfig ==
    [avroType |-> NoneVal, avroNamespace |-> NoneVal, avroLogicalType |-> NoneVal,
     avroDefault |-> NoneVal, values |-> NoneVal, name |-> NoneVal]

(* a field with every optional attribute absent *)
BareField ==
    [type |-> NoneVal, required |-> NoneVal, description |-> NoneVal, title |-> NoneVal,
     enum |-> <<>>, scale |-> NoneVal, precision |-> NoneVal, tags |-> NoneVal,
     relatedTerms |-> NoneVal, lineage |-> NoneVal, config |-> NoneVal,
     fields |-> <<>>, items |-> NoneVal]

RequiredValues == {NoneVal, Some(TRUE), Some(FALSE)}

(* every tag to_avro_type names, one it does not ("geo"), enum, and no tag *)
LeafTypes ==
    {NoneVal} \cup
    {Some(t) : t \in {"string", "varchar", "text", "number", "numeric", "decimal", "float",
                      "double", "integer", "int", "long", "bigint", "boolean", "timestamp",
                      "timestamp_tz", "timestamp_ntz", "date", "time", "map", "binary",
                      "null", "enum", "geo"}}

LeafConfigs ==
    {NoneVal, Some(EmptyConfig)} \cup
    {Some([EmptyConfig EXCEPT !.avroType = t, !.avroLogicalType = l,
                              !.avroDefault = d, !.values = v]) :
        t \in {NoneVal, Some("enum"), Some("fixed")},
        l \in {NoneVal, Some("date"), Some("timestamp-micros"), Some("uuid")},
        d \in {NoneVal, Some("dflt")},
        v \in {NoneVal, Some("string")}}

(* the enum attributes and the metadata that is passed through *)
LeafDetails ==
    {[title |-> NoneVal, enum |-> <<>>, description |-> NoneVal, tags |-> NoneVal,
      relatedTerms |-> NoneVal, lineage |-> NoneVal, scale |-> NoneVal, precision |-> NoneVal],
     [title |-> Some("Title"), enum |-> <<"X", "Y">>, description |-> Some("text"),
      tags |-> Some(<<>>), relatedTerms |-> Some(<<>>),
      lineage |-> Some([inputFields |-> NoneVal]), scale |-> Some(2), precision |-> NoneVal],
     [title |-> Some("Title"), enum |-> <<"X", "Y">>, description |-> NoneVal,
      tags |-> Some(<<"pii">>), relatedTerms |-> Some(<<"term">>),
      lineage |-> Some([inputFields |-> Some(<<[name |-> "src", field |-> "col"]>>)]),
      scale |-> Some(2), precision |-> Some(10)]}

LeafFields ==
    {[BareField EXCEPT !.type = t, !.required = r, !.config = c, !.title = d.title,
                       !.enum = d.enum, !.description = d.description, !.tags = d.tags,
                       !.relatedTerms = d.relatedTerms, !.lineage = d.lineage,
                       !.scale = d.scale, !.precision = d.precision] :
        t \in LeafTypes, r \in RequiredValues, c \in LeafConfigs, d \in LeafDetails}

StringField == [BareField EXCEPT !.type = Some("string")]

StructField(config, fields) ==
    [BareField EXCEPT !.type = Some("struct"), !.config = config, !.fields = fields]

ArrayField(config, items) ==
    [BareField EXCEPT !.type = Some("array"), !.config = config, !.items = items]

(* the configurations of a nested structure: none, a type name, a namespace *)
KidConfigs ==
    {NoneVal, Some([EmptyConfig EXCEPT !.avroType = Some("S")]),
     Some([EmptyConfig EXCEPT !.avroNamespace = Some("b")])}

KidNames == {"S", "T"}

(* the fields nested at most d levels deep, one field per nested structure *)
RECURSIVE Kids(_)
Kids(d) ==
    IF d = 0 THEN {StringField}
    ELSE LET below == Kids(d - 1) IN
         below
         \cup {StructField(c, <<>>) : c \in KidConfigs}
         \cup {StructField(c, << <<n, f>> >>) : c \in KidConfigs, n \in KidNames, f \in below}
         \cup {ArrayField(NoneVal, Some(f)) : f \in below}

ShallowKids ==
    {StringField, ArrayField(NoneVal, Some(StructField(NoneVal, <<>>)))}
    \cup {StructField(c, <<>>) : c \in KidConfigs}

FieldNames == {"S", "T", "enum"}

(* the ordered dicts of at most n fields over the given fields: the keys of *)
(* a dict are distinct                                                      *)
RECURSIVE FieldDicts(_, _, _)
FieldDicts(n, names, fields) ==
    IF n = 0 THEN {<<>>}
    ELSE LET shorter == FieldDicts(n - 1, names, fields) IN
         shorter \cup
         {Append(d, <<nm, f>>) :
             d \in {x \in shorter : Len(x) = n - 1},
             nm \in names, f \in fields}

DistinctKeys(d) == \A i, j \in 1..Len(d) : d[i][1] = d[j][1] => i = j

ShapeDicts ==
    {d \in FieldDicts(MaxFields, FieldNames, ShallowKids) : DistinctKeys(d)}
    \cup FieldDicts(1, KidNames, Kids(MaxDepth - 1))

(* structures and arrays with every combination of the attributes and the  *)
(* configuration keys that to_avro_type and to_avro_field read for them     *)
StructConfigs ==
    {NoneVal, Some(EmptyConfig)} \cup
    {Some([EmptyConfig EXCEPT !.avroNamespace = n, !.avroType = t,
                              !.avroLogicalType = l, !.avroDefault = d]) :
        n \in {NoneVal, Some("a"), Some("b")},
        t \in {NoneVal, Some("S"), Some("enum")},
        l \in {NoneVal, Some("date"), Some("uuid")},
        d \in {NoneVal, Some("dflt")}}

LabelledStructs ==
    {[BareField EXCEPT !.type = Some(t), !.required = r, !.config = c,
                       !.title = Some("Title")] :
        t \in StructTags, r \in RequiredValues, c \in StructConfigs}

ArrayItems ==
    {Some(StringField), Some([StringField EXCEPT !.config = Some(EmptyConfig)]),
     Some([StringField EXCEPT !.config = Some([EmptyConfig EXCEPT !.avroType = Some("T")])]),
     Some(StructField(NoneVal, <<>>)),
     Some(StructField(Some([EmptyConfig EXCEPT !.avroType = Some("S")]), <<>>)),
     Some(StructField(Some([EmptyConfig EXCEPT !.avroNamespace = Some("b")]), <<>>))}

LabelledArrays ==
    {[ArrayField(c, i) EXCEPT !.required = r] :
        c \in {NoneVal, Some(EmptyConfig), Some([EmptyConfig EXCEPT !.name = Some("items")])},
        i \in ArrayItems, r \in RequiredValues}

ShapedStructs ==
    {StructField(c, d) :
        c \in {NoneVal, Some([EmptyConfig EXCEPT !.avroNamespace = Some("b")])},
        d \in ShapeDicts}

Namespaces == {NoneVal, Some("a"), Some("b")}

(* the keys an earlier conversion of the process may have left in the cache *)
CacheContents == SUBSET {"a.S", "b.S", "a.enum"}

(* the models of a data contract: the record is named by model_name or by  *)
(* the avroType of the model's config, its namespace is model.namespace or *)
(* the avroNamespace of the config                                         *)
ModelNames == {"S"}

ModelHeads ==
    {[namespace |-> Some("a"), config |-> NoneVal],
     [namespace |-> NoneVal,
      config |-> Some([EmptyConfig EXCEPT !.avroType = Some("Model"),
                                          !.avroNamespace = Some("a")])]}

ModelKids ==
    {StructField(NoneVal, << <<"S", StructField(NoneVal, <<>>)>> >>),
     ArrayField(NoneVal, Some(StructField(NoneVal, <<>>)))}

ModelFieldNames == {"S", "T", "U"}

Models ==
    {[namespace |-> h.namespace, description |-> NoneVal, config |-> h.config, fields |-> d] :
        h \in ModelHeads,
        d \in {x \in FieldDicts(MaxFields, ModelFieldNames, ModelKids) : DistinctKeys(x)}}

---------------------------------------------------------------------------
(* The process: any sequence of conversions on the one module-level cache. *)

Init ==
    /\ avro_data_types_cache = {}
    /\ cacheBefore = {}
    /\ call = "none"
    /\ arg = NoneVal
    /\ out = NoneVal

(* a call that returns r: the module-level cache is what the call left *)
Returns(fn, arguments, r) ==
    /\ call' = fn
    /\ arg' = Some(arguments)
    /\ cacheBefore' = avro_data_types_cache
    /\ avro_data_types_cache' = r.c
    /\ out' = Some(r.v)

(* to_avro_schema(model_name, model), lines 16-25 *)
ToAvroSchema(model_name, model) ==
    Returns("to_avro_schema", [model_name |-> model_name, model |-> model],
            to_avro_schema(model_name, model, avro_data_types_cache))

(* to_avro_schema_json(model_name, model), lines 28-31; AvroExporter.export *)
(* (lines 11-13) calls it with the model the contract names                 *)
ToAvroSchemaJson(model_name, model) ==
    Returns("to_avro_schema_json", [model_name |-> model_name, model |-> model],
            to_avro_schema_json(model_name, model, avro_data_types_cache))

(* a caller converts any model of a contract, at any time *)
CallToAvroSchema ==
    /\ call # "ready"
    /\ \E model_name \in ModelNames, model \in Models : ToAvroSchema(model_name, model)

CallToAvroSchemaJson ==
    /\ call # "ready"
    /\ \E model_name \in ModelNames, model \in Models : ToAvroSchemaJson(model_name, model)

Next == CallToAvroSchema \/ CallToAvroSchemaJson

Spec == Init /\ [][Next]_vars

---------------------------------------------------------------------------
(* One call of to_avro_field or to_avro_type on arguments drawn from        *)
(* FieldArgs, in a process whose cache holds the drawn contents.            *)

Ready(field, field_name, namespace, cache) ==
    /\ avro_data_types_cache = cache
    /\ cacheBefore = cache
    /\ call = "ready"
    /\ arg = Some([field |-> field, field_name |-> field_name, namespace |-> namespace])
    /\ out = NoneVal

InitField ==
    \/ \E f \in LeafFields : Ready(f, "S", Some("a"), {})
    \/ \E f \in LabelledStructs \cup LabelledArrays \cup ShapedStructs,
          n \in FieldNames, ns \in Namespaces, c \in CacheContents :
            Ready(f, n, ns, c)

(* to_avro_field(field, field_name, namespace), lines 51-86 *)
ToAvroField ==
    /\ call = "ready"
    /\ Returns("to_avro_field", arg[1],
               to_avro_field(arg[1].field, arg[1].field_name, arg[1].namespace,
                             avro_data_types_cache))

(* to_avro_type(field, field_name, namespace), lines 89-177 *)
ToAvroType ==
    /\ call = "ready"
    /\ Returns("to_avro_type", arg[1],
               to_avro_type(arg[1].field, arg[1].field_name, arg[1].namespace,
                            avro_data_types_cache))

NextField == ToAvroField \/ ToAvroType

SpecField == InitField /\ [][NextField]_vars

---------------------------------------------------------------------------
(* Reading an emitted schema. *)

RECURSIVE Definitions(_)
RECURSIVE DefinitionsOfFields(_)

(* the (namespace, name) of every full record definition in v, in traversal order *)
Definitions(v) ==
    CASE v.k = "record" ->
            <<[namespace |-> v.namespace, name |-> v.name]>> \o DefinitionsOfFields(v.fields)
      [] v.k = "field" -> Definitions(v.type)
      [] v.k = "union" -> Definitions(v.alt)
      [] v.k = "array" -> Definitions(v.items)
      [] v.k = "json" -> Definitions(v.text)
      [] OTHER -> <<>>

DefinitionsOfFields(fs) ==
    IF fs = <<>> THEN <<>> ELSE Definitions(fs[1]) \o DefinitionsOfFields(Tail(fs))

PrimitiveNames == {"null", "string", "bytes", "float", "double", "int", "long", "boolean"}

RECURSIVE References(_)
RECURSIVE ReferencesOfFields(_)

(* the bare strings of v that are not Avro primitives: the name references *)
References(v) ==
    CASE v.k = "str" -> IF v.s \in PrimitiveNames THEN {} ELSE {v.s}
      [] v.k = "record" -> ReferencesOfFields(v.fields)
      [] v.k = "field" -> References(v.type)
      [] v.k = "union" -> References(v.alt)
      [] v.k = "array" -> References(v.items)
      [] v.k = "json" -> References(v.text)
      [] OTHER -> {}

ReferencesOfFields(fs) ==
    IF fs = <<>> THEN {} ELSE References(fs[1]) \cup ReferencesOfFields(Tail(fs))

NoDuplicates(seq) == \A i, j \in 1..Len(seq) : seq[i] = seq[j] => i = j

Returned == ~IsNone(out) /\ ~IsRaise(out[1])

TheField == arg[1].field

(* the value to_avro_type returns for the arguments of the call *)
MappedType == to_avro_type(TheField, arg[1].field_name, arg[1].namespace, cacheBefore).v

(* the field's structure branch of to_avro_type is the one that returns *)
IsStructCall ==
    /\ ~IsNone(arg)
    /\ ~IsNone(TheField.type)
    /\ TheField.type[1] \in StructTags
    /\ IsNone(ConfigOverride(TheField, arg[1].field_name))

---------------------------------------------------------------------------
(* C1: starting from an empty cache, one to_avro_schema emits every record  *)
(* identity (namespace, name), the top-level record included, in full at    *)
(* most once.                                                               *)
C1_FullDefinitionOnce ==
    (call = "to_avro_schema" /\ cacheBefore = {} /\ Returned)
        => NoDuplicates(Definitions(out[1]))

(* the identity the arguments of the call resolve to, as C2 states it *)
C2_ResolvedNamespace ==
    IF ~IsNone(TheField.config) /\ ~IsNone(TheField.config[1].avroNamespace)
    THEN TheField.config[1].avroNamespace ELSE arg[1].namespace

C2_TypeName ==
    IF ~IsNone(TheField.config) /\ ~IsNone(TheField.config[1].avroType)
    THEN TheField.config[1].avroType[1] ELSE arg[1].field_name

C2_Qualified == FmtNs(C2_ResolvedNamespace) \o "." \o C2_TypeName

C2_CachedStructure ==
    call = "to_avro_type" /\ IsStructCall /\ C2_Qualified \in cacheBefore

(* the same for the i-th field of the structure, whose enclosing namespace  *)
(* is the resolved namespace of the structure                               *)
C2_KidIsStructure(i) ==
    LET kid == TheField.fields[i][2] IN
    /\ ~IsNone(kid.type)
    /\ kid.type[1] \in StructTags
    /\ IsNone(ConfigOverride(kid, TheField.fields[i][1]))

C2_KidNamespace(i) ==
    LET kid == TheField.fields[i][2] IN
    IF ~IsNone(kid.config) /\ ~IsNone(kid.config[1].avroNamespace)
    THEN kid.config[1].avroNamespace ELSE C2_ResolvedNamespace

C2_KidTypeName(i) ==
    LET kid == TheField.fields[i][2] IN
    IF ~IsNone(kid.config) /\ ~IsNone(kid.config[1].avroType)
    THEN kid.config[1].avroType[1] ELSE TheField.fields[i][1]

C2_KidQualified(i) == FmtNs(C2_KidNamespace(i)) \o "." \o C2_KidTypeName(i)

(* the type of the emitted field for the mapped type M *)
C8_ExpectedType(field, M) ==
    IF field.required = Some(FALSE) THEN Union(M)
    ELSE IF M = Str("enum") THEN EnumType(field.title, field.enum)
    ELSE M

(* C2: when to_avro_type handles a structure whose key is already in the    *)
(* cache it returns the unqualified type name if the resolved namespace     *)
(* (the avroNamespace of the config when configured, else the namespace     *)
(* passed by the caller) equals the namespace passed by the caller, and     *)
(* "namespace.typeName" otherwise.                                          *)
C2_NameReference ==
    /\ C2_CachedStructure
          => out[1] = Str(IF C2_ResolvedNamespace = arg[1].namespace
                          THEN C2_TypeName ELSE C2_Qualified)
    /\ (call = "to_avro_type" /\ IsStructCall /\ C2_Qualified \notin cacheBefore /\ Returned)
          => \A i \in 1..Len(TheField.fields) :
                (C2_KidIsStructure(i) /\ C2_KidQualified(i) \in cacheBefore)
                   => out[1].fields[i].type
                         = C8_ExpectedType(TheField.fields[i][2],
                              Str(IF C2_KidNamespace(i) = C2_ResolvedNamespace
                                  THEN C2_KidTypeName(i) ELSE C2_KidQualified(i)))

C2_Witness ==
    /\ C2_CachedStructure
    /\ ~IsNone(TheField.config)
    /\ ~IsNone(TheField.config[1].avroNamespace)
    /\ C2_ResolvedNamespace # arg[1].namespace
    /\ out[1] = Str(C2_Qualified)

(* C3: no field makes to_avro_field or to_avro_type raise, and a type tag   *)
(* that is not recognized yields the bare scalar "bytes".                   *)
C3_NeverRaises ==
    (call \in {"to_avro_field", "to_avro_type"})
        => /\ ~IsRaise(out[1])
           /\ (call = "to_avro_type" /\ TheField.type = Some("geo")
               /\ IsNone(ConfigOverride(TheField, arg[1].field_name)))
                  => out[1] = Str("bytes")

(* C4: no step removes a key from avro_data_types_cache, and the cache a    *)
(* conversion starts with holds every key the earlier conversions inserted. *)
C4_CacheOnlyGrows ==
    [][/\ avro_data_types_cache \subseteq avro_data_types_cache'
       /\ cacheBefore \subseteq cacheBefore'
       /\ avro_data_types_cache \subseteq cacheBefore']_vars

C4_Witness ==
    /\ call \in {"to_avro_schema", "to_avro_schema_json"}
    /\ cacheBefore # {}
    /\ cacheBefore # avro_data_types_cache
    /\ cacheBefore \subseteq avro_data_types_cache

(* C5: two calls of to_avro_schema with the same (model_name, model) return *)
(* the same schema, whatever was converted before.                          *)
C5_Deterministic ==
    [][(call = "to_avro_schema" /\ call' = "to_avro_schema" /\ arg' = arg)
          => out' = out]_vars

(* C6: a required field whose type tag is enum, with no avroType and no     *)
(* avroLogicalType in its config, is emitted with the inline enum type      *)
(* named by its title.                                                      *)
C6_EnumByTag ==
    (/\ call = "to_avro_field"
     /\ TheField.type = Some("enum")
     /\ TheField.required # Some(FALSE)
     /\ ~HasKey(TheField.config, "avroType")
     /\ ~HasKey(TheField.config, "avroLogicalType"))
        => /\ Returned
           /\ out[1].type = EnumType(TheField.title, TheField.enum)

(* the field is enum-typed by its tag or by its configuration *)
C7_EnumTyped ==
    \/ TheField.type = Some("enum")
    \/ (~IsNone(TheField.config) /\ TheField.config[1].avroType = Some("enum"))

(* C7: an enum-typed field (by type tag or by avroType = enum) carries no   *)
(* default even when avroDefault is configured; any other field with        *)
(* avroDefault configured carries that default.                             *)
C7_DefaultOnlyIfNotEnum ==
    (call = "to_avro_field" /\ Returned)
        => /\ C7_EnumTyped => IsNone(out[1].default)
           /\ (~C7_EnumTyped /\ HasKey(TheField.config, "avroDefault"))
                  => out[1].default = TheField.config[1].avroDefault

C9_UncachedStructure ==
    call = "to_avro_type" /\ IsStructCall /\ C2_Qualified \notin cacheBefore

(* the i-th field of the structure is a structure of the same identity *)
C9_SelfReference(i) ==
    /\ C2_KidIsStructure(i)
    /\ C2_KidNamespace(i) = C2_ResolvedNamespace
    /\ C2_KidTypeName(i) = C2_TypeName

C10_ReferencesDefinedInSchema ==
    (call = "to_avro_schema" /\ Returned)
        => \A ref \in References(out[1]) :
              \E j \in 1..Len(Definitions(out[1])) :
                 LET d == Definitions(out[1])[j] IN
                 ref = d.name \/ ref = FmtNs(d.namespace) \o "." \o d.name

=============================================================================
